---- MODULE Spec2Model ----
(***************************************************************************)
(* Model of src/tracker.js: the HealthJobsUK emergency-medicine tracker.   *)
(* One run of runTracker() is a sequence of steps, one per awaited         *)
(* operation; the data file outlives a run, so the model chains runs.      *)
(***************************************************************************)
EXTENDS Integers, Sequences, FiniteSets, TLC

\* ------------------------------------------------------------------ bounds
MaxJobs == 2

MaxStore == 1

MaxRuns == 2

\* ------------------------------------------------------- program constants
ConfigExitCode == 1

FailExitCode == 1

\* ------------------------------------------------------------ input domains
Ids == {"a", "b"}

Salaries == {"lo", "hi"}

JobRecord == [id : Ids, salary : Salaries]

SeqsUpTo(S, n) == UNION {[1..k -> S] : k \in 0..n}

FileKinds == {"missing", "garbage", "nonarray", "array"}

\* What fs.writeFile(dataFile, JSON.stringify([...values], null, 2)) leaves on disk.
Stringify(recs) == [kind |-> "array", recs |-> recs]

AbsentFile == [kind |-> "missing", recs |-> <<>>]

GarbageFile == [kind |-> "garbage", recs |-> <<>>]

NonArrayFile == [kind |-> "nonarray", recs |-> <<>>]

InitialFiles ==
    {AbsentFile, GarbageFile, NonArrayFile}
        \cup {Stringify(r) : r \in SeqsUpTo(JobRecord, MaxStore)}

VARIABLES
    run,               \* number of the current run
    pc,                \* position of runTracker()
    telegramBotToken,  \* CONFIG.telegramBotToken is set
    telegramChatId,    \* CONFIG.telegramChatId is set
    dataFile,          \* content of CONFIG.dataFile on disk
    fileAtStart,       \* dataFile as it was when the run started
    fileRead,          \* fs.readFile was called in this run
    writeStarted,      \* fs.mkdir (the save) was called in this run
    written,           \* fs.writeFile completed in this run
    callsAtWrite,      \* number of outbound calls made when the save started
    browser,           \* "none", "open" or "closed"
    jobs,              \* result of page.evaluate
    previousJobs,      \* [isArray, recs]: value of previousJobs after the load
    newJobs,           \* jobs.filter(...)
    mergedJobs,        \* [...mergedJobs.values()]
    idx,               \* position of the for-of loop in newJobs
    calls,             \* outbound axios.post calls of this run, in order
    error,             \* the error being propagated, or "none"
    faults,            \* operations other than sends that threw in this run
    diffed,            \* lines 102-103 completed in this run
    exitCode,          \* process exit code (meaningful when pc = "exited")
    exitSite,          \* "none", "config" (line 44), "toplevel" (line 150), "normal"
    notifiedEarlier    \* ids that were the subject of a per-record send in an earlier run

vars == <<run, pc, telegramBotToken, telegramChatId, dataFile, fileAtStart,
          fileRead, writeStarted, written, callsAtWrite, browser, jobs,
          previousJobs, newJobs, mergedJobs, idx, calls, error, faults, diffed,
          exitCode, exitSite, notifiedEarlier>>

\* ------------------------------------------------------------ pure helpers
IdsOf(recs) == {recs[i].id : i \in DOMAIN recs}

\* line 42: !CONFIG.telegramBotToken || !CONFIG.telegramChatId
CredsMissingOnlyBoth(token, chat) == ~token /\ ~chat

CredsMissing(token, chat) == ~token \/ ~chat

\* line 98: JSON.parse(await fs.readFile(...)) inside try { } catch { }
LoadPrevious(file) ==
    CASE file.kind \in {"missing", "garbage"} -> [isArray |-> TRUE, recs |-> <<>>]
      [] file.kind = "nonarray" -> [isArray |-> FALSE, recs |-> <<>>]
      [] OTHER -> [isArray |-> TRUE, recs |-> file.recs]

\* lines 102-103: jobs.filter(j => !previousIds.has(j.id))
NewJobsByContent(js, prev) ==
    SelectSeq(js, LAMBDA j : \A i \in DOMAIN prev : prev[i] # j)

NewJobsOf(js, prev) == SelectSeq(js, LAMBDA j : j.id \notin IdsOf(prev))

\* Map.prototype.set on the entries of a Map kept in insertion order
MapSet(m, j) ==
    IF \E i \in DOMAIN m : m[i].id = j.id
    THEN [i \in DOMAIN m |-> IF m[i].id = j.id THEN j ELSE m[i]]
    ELSE Append(m, j)

RECURSIVE SetAll(_, _)
SetAll(m, js) == IF js = <<>> THEN m ELSE SetAll(MapSet(m, Head(js)), Tail(js))

\* lines 116-118
MergePreviousWins(prev, js) == SetAll(SetAll(<<>>, js), prev)

MergeJobs(prev, js) == SetAll(SetAll(<<>>, prev), js)

\* line 108: the for-of loop is over when the iterator is exhausted
LoopDoneEarly(i, n) == i >= n

LoopDone(i, n) == i > n

\* lines 112, 135: .catch(e => console.error(...)) resolves the awaited promise
PropagatesSendError(ok) == ok

ContinuesAfterSend(ok) == TRUE

\* line 150: runTracker().catch(() => process.exit(1)); otherwise node ends with 0
ExitAlwaysZero(err) == 0

ExitCodeOf(err) == IF err = "none" THEN 0 ELSE FailExitCode

Call(type, job, status) == [type |-> type, job |-> job, status |-> status]

Complete(cs, ok) ==
    [cs EXCEPT ![Len(cs)].status = IF ok THEN "sent" ELSE "failed"]

\* -------------------------------------------------------------------- Init
Init ==
    /\ run = 1
    /\ pc = "start"
    /\ telegramBotToken \in BOOLEAN
    /\ telegramChatId \in BOOLEAN
    /\ dataFile \in InitialFiles
    /\ fileAtStart = dataFile
    /\ fileRead = FALSE
    /\ writeStarted = FALSE
    /\ written = FALSE
    /\ callsAtWrite = 0
    /\ browser = "none"
    /\ jobs = <<>>
    /\ previousJobs = [isArray |-> TRUE, recs |-> <<>>]
    /\ newJobs = <<>>
    /\ mergedJobs = <<>>
    /\ idx = 1
    /\ calls = <<>>
    /\ error = "none"
    /\ faults = {}
    /\ diffed = FALSE
    /\ exitCode = 0
    /\ exitSite = "none"
    /\ notifiedEarlier = {}

\* ----------------------------------------------------------------- actions
runVars == <<run, telegramBotToken, telegramChatId, fileAtStart, notifiedEarlier>>

fileVars == <<dataFile, fileRead, writeStarted, written, callsAtWrite>>

dataVars == <<jobs, previousJobs, newJobs, mergedJobs, idx>>

exitVars == <<exitCode, exitSite>>

\* lines 41-45: a missing credential ends the process before anything else
ValidateConfig ==
    /\ pc = "start"
    /\ IF CredsMissing(telegramBotToken, telegramChatId)
       THEN /\ pc' = "exited"
            /\ exitCode' = ConfigExitCode
            /\ exitSite' = "config"
       ELSE /\ pc' = "launch"
            /\ UNCHANGED exitVars
    /\ UNCHANGED <<runVars, fileVars, dataVars, browser, calls, error, faults, diffed>>

\* A rejection of runTracker() outside its try block: line 150 alone handles it.
RejectOutsideTry(what) ==
    /\ error' = what
    /\ faults' = faults \cup {what}
    /\ pc' = "exited"
    /\ exitCode' = ExitCodeOf(what)
    /\ exitSite' = "toplevel"

\* line 47: chromium.launch
Launch ==
    /\ pc = "launch"
    /\ \E ok \in BOOLEAN :
         IF ok
         THEN /\ browser' = "open"
              /\ pc' = "newContext"
              /\ UNCHANGED <<error, faults, exitVars>>
         ELSE /\ RejectOutsideTry("launch")
              /\ UNCHANGED browser
    /\ UNCHANGED <<runVars, fileVars, dataVars, calls, diffed>>

\* lines 48-51: browser.newContext, before the try block
NewContext ==
    /\ pc = "newContext"
    /\ \E ok \in BOOLEAN :
         IF ok
         THEN /\ pc' = "newPage"
              /\ UNCHANGED <<error, faults, exitVars>>
         ELSE RejectOutsideTry("context")
    /\ UNCHANGED <<runVars, fileVars, dataVars, browser, calls, diffed>>

\* line 52: context.newPage, before the try block
NewPage ==
    /\ pc = "newPage"
    /\ \E ok \in BOOLEAN :
         IF ok
         THEN /\ pc' = "goto"
              /\ UNCHANGED <<error, faults, exitVars>>
         ELSE RejectOutsideTry("page")
    /\ UNCHANGED <<runVars, fileVars, dataVars, browser, calls, diffed>>

\* A throw inside the try block: control moves to the catch clause of line 139.
Throw(what) ==
    /\ error' = what
    /\ pc' = "catch"

\* lines 54-58: page.goto
Goto ==
    /\ pc = "goto"
    /\ \E ok \in BOOLEAN :
         IF ok
         THEN /\ pc' = "extract"
              /\ UNCHANGED <<error, faults>>
         ELSE /\ Throw("nav")
              /\ faults' = faults \cup {"nav"}
    /\ UNCHANGED <<runVars, fileVars, dataVars, browser, calls, diffed, exitVars>>

\* lines 60-93: waitForSelector (its timeout is swallowed), count, page.evaluate
Extract ==
    /\ pc = "extract"
    /\ \/ /\ \E js \in SeqsUpTo(JobRecord, MaxJobs) : jobs' = js
          /\ pc' = "load"
          /\ UNCHANGED <<error, faults>>
       \/ /\ Throw("extract")
          /\ faults' = faults \cup {"extract"}
          /\ UNCHANGED jobs
    /\ UNCHANGED <<runVars, fileVars, previousJobs, newJobs, mergedJobs, idx,
                   browser, calls, diffed, exitVars>>

\* lines 95-105: load the previous jobs, then previousJobs.map and jobs.filter;
\* .map of a parsed value that is no array throws a TypeError
Load ==
    /\ pc = "load"
    /\ fileRead' = TRUE
    /\ previousJobs' = LoadPrevious(dataFile)
    /\ IF previousJobs'.isArray
       THEN /\ newJobs' = NewJobsOf(jobs, previousJobs'.recs)
            /\ idx' = 1
            /\ diffed' = TRUE
            /\ pc' = "notify"
            /\ UNCHANGED error
       ELSE /\ Throw("type")
            /\ UNCHANGED <<newJobs, idx, diffed>>
    /\ UNCHANGED <<runVars, dataFile, writeStarted, written, callsAtWrite, jobs,
                   mergedJobs, browser, calls, faults, exitVars>>

\* lines 108-110 without the await: the loop goes on while the call is in flight
NotifyStartNoAwait ==
    /\ pc = "notify"
    /\ ~LoopDone(idx, Len(newJobs))
    /\ calls' = Append(calls, Call("job", <<newJobs[idx]>>, "pending"))
    /\ idx' = idx + 1
    /\ UNCHANGED <<runVars, fileVars, jobs, previousJobs, newJobs, mergedJobs, pc,
                   browser, error, faults, diffed, exitVars>>

\* lines 108-110: the next new job's message is posted and awaited
NotifyStart ==
    /\ pc = "notify"
    /\ ~LoopDone(idx, Len(newJobs))
    /\ calls' = Append(calls, Call("job", <<newJobs[idx]>>, "pending"))
    /\ pc' = "notify_wait"
    /\ UNCHANGED <<runVars, fileVars, dataVars, browser, error, faults, diffed, exitVars>>

\* lines 110-113: the post settles; a rejection is logged by .catch
NotifyDone ==
    /\ pc = "notify_wait"
    /\ \E ok \in BOOLEAN :
         /\ calls' = Complete(calls, ok)
         /\ IF ContinuesAfterSend(ok)
            THEN /\ idx' = idx + 1
                 /\ pc' = "notify"
                 /\ UNCHANGED error
            ELSE /\ Throw("send")
                 /\ UNCHANGED idx
    /\ UNCHANGED <<runVars, fileVars, jobs, previousJobs, newJobs, mergedJobs,
                   browser, faults, diffed, exitVars>>

\* lines 115-119: the merge, then fs.mkdir is called
StartSave ==
    /\ pc = "notify"
    /\ LoopDone(idx, Len(newJobs))
    /\ mergedJobs' = MergeJobs(previousJobs.recs, jobs)
    /\ writeStarted' = TRUE
    /\ callsAtWrite' = Len(calls)
    /\ pc' = "mkdir"
    /\ UNCHANGED <<runVars, dataFile, fileRead, written, jobs, previousJobs, newJobs,
                   idx, browser, calls, error, faults, diffed, exitVars>>

\* line 119: fs.mkdir settles
Mkdir ==
    /\ pc = "mkdir"
    /\ \E ok \in BOOLEAN :
         IF ok
         THEN /\ pc' = "writeFile"
              /\ UNCHANGED <<error, faults>>
         ELSE /\ Throw("write")
              /\ faults' = faults \cup {"mkdir"}
    /\ UNCHANGED <<runVars, fileVars, dataVars, browser, calls, diffed, exitVars>>

\* line 120: fs.writeFile; a failed write leaves the file as it was or a torn one
WriteFile ==
    /\ pc = "writeFile"
    /\ \/ /\ dataFile' = Stringify(mergedJobs)
          /\ written' = TRUE
          /\ pc' = "summary"
          /\ UNCHANGED <<error, faults>>
       \/ /\ dataFile' \in {dataFile, GarbageFile}
          /\ Throw("write")
          /\ faults' = faults \cup {"write"}
          /\ UNCHANGED written
    /\ UNCHANGED <<runVars, fileRead, writeStarted, callsAtWrite, dataVars, browser,
                   calls, diffed, exitVars>>

\* lines 122-133: the completion message is posted
SummaryStart ==
    /\ pc = "summary"
    /\ calls' = Append(calls, Call("summary", <<>>, "pending"))
    /\ pc' = "summary_wait"
    /\ UNCHANGED <<runVars, fileVars, dataVars, browser, error, faults, diffed, exitVars>>

\* lines 133-137: the post settles; a rejection is logged by .catch
SummaryDone ==
    /\ pc = "summary_wait"
    /\ \E ok \in BOOLEAN :
         /\ calls' = Complete(calls, ok)
         /\ IF ContinuesAfterSend(ok)
            THEN /\ pc' = "finally"
                 /\ UNCHANGED error
            ELSE Throw("send")
    /\ UNCHANGED <<runVars, fileVars, dataVars, browser, faults, diffed, exitVars>>

\* lines 139-142: the catch clause posts the failure message
CatchStart ==
    /\ pc = "catch"
    /\ calls' = Append(calls, Call("failure", <<>>, "pending"))
    /\ pc' = "catch_wait"
    /\ UNCHANGED <<runVars, fileVars, dataVars, browser, error, faults, diffed, exitVars>>

\* lines 143-144: the post settles (.catch(() => {})), then throw error
CatchDone ==
    /\ pc = "catch_wait"
    /\ \E ok \in BOOLEAN : calls' = Complete(calls, ok)
    /\ pc' = "finally"
    /\ UNCHANGED <<runVars, fileVars, dataVars, browser, error, faults, diffed, exitVars>>

\* lines 145-150: browser.close(), then the process ends
Finally ==
    /\ pc = "finally"
    /\ browser' = "closed"
    /\ pc' = "exited"
    /\ exitCode' = ExitCodeOf(error)
    /\ exitSite' = IF error = "none" THEN "normal" ELSE "toplevel"
    /\ UNCHANGED <<runVars, fileVars, dataVars, calls, error, faults, diffed>>

JobCallIds(cs) == {cs[i].job[1].id : i \in {k \in DOMAIN cs : cs[k].type = "job"}}

\* The scheduler starts the script again: a fresh process over the same data file.
NextRun ==
    /\ pc = "exited"
    /\ run < MaxRuns
    /\ run' = run + 1
    /\ pc' = "start"
    /\ telegramBotToken' \in BOOLEAN
    /\ telegramChatId' \in BOOLEAN
    /\ fileAtStart' = dataFile
    /\ notifiedEarlier' = notifiedEarlier \cup JobCallIds(calls)
    /\ fileRead' = FALSE
    /\ writeStarted' = FALSE
    /\ written' = FALSE
    /\ callsAtWrite' = 0
    /\ browser' = "none"
    /\ jobs' = <<>>
    /\ previousJobs' = [isArray |-> TRUE, recs |-> <<>>]
    /\ newJobs' = <<>>
    /\ mergedJobs' = <<>>
    /\ idx' = 1
    /\ calls' = <<>>
    /\ error' = "none"
    /\ faults' = {}
    /\ diffed' = FALSE
    /\ exitCode' = 0
    /\ exitSite' = "none"
    /\ UNCHANGED dataFile

Next ==
    \/ ValidateConfig
    \/ Launch
    \/ NewContext
    \/ NewPage
    \/ Goto
    \/ Extract
    \/ Load
    \/ NotifyStart
    \/ NotifyDone
    \/ StartSave
    \/ Mkdir
    \/ WriteFile
    \/ SummaryStart
    \/ SummaryDone
    \/ CatchStart
    \/ CatchDone
    \/ Finally
    \/ NextRun

Spec == Init /\ [][Next]_vars

TypeOK ==
    /\ run \in 1..MaxRuns
    /\ browser \in {"none", "open", "closed"}
    /\ dataFile.kind \in FileKinds
    /\ idx \in 1..(Len(newJobs) + 1)
    /\ exitCode \in {0, ConfigExitCode, FailExitCode}

\* ------------------------------------------------ vocabulary of the claims
\* The records of the store the run started from (none when it held no array).
PrevRecs == IF fileAtStart.kind = "array" THEN fileAtStart.recs ELSE <<>>

PrevIds == {PrevRecs[i].id : i \in DOMAIN PrevRecs}

\* Positions of the scraped records whose id the starting store does not hold.
NewIdx == {k \in DOMAIN jobs : jobs[k].id \notin PrevIds}

NumNew == Cardinality(NewIdx)

Rank(k) == Cardinality({k2 \in NewIdx : k2 <= k})

LastOf(recs, id) ==
    recs[CHOOSE i \in DOMAIN recs :
            /\ recs[i].id = id
            /\ \A j \in DOMAIN recs : recs[j].id = id => j <= i]

CredsAbsent == ~telegramBotToken \/ ~telegramChatId

SaveFault == faults \cap {"mkdir", "write"} # {}

SomeSendFailed ==
    \E i \in DOMAIN calls :
        calls[i].type \in {"job", "summary"} /\ calls[i].status = "failed"

\* C1: the store a run writes holds exactly one record for each id of the
\* previous store or of the current scrape; an id of the current scrape is
\* stored with the current run's record, any other id with the previous record.
C1_MergedStore ==
    written =>
        /\ dataFile.kind = "array"
        /\ {dataFile.recs[i].id : i \in DOMAIN dataFile.recs}
               = PrevIds \cup {jobs[k].id : k \in DOMAIN jobs}
        /\ \A i, j \in DOMAIN dataFile.recs :
               dataFile.recs[i].id = dataFile.recs[j].id => i = j
        /\ \A i \in DOMAIN dataFile.recs :
               LET r == dataFile.recs[i]
               IN  IF \E k \in DOMAIN jobs : jobs[k].id = r.id
                   THEN r = LastOf(jobs, r.id)
                   ELSE r = LastOf(PrevRecs, r.id)

C1_Witness ==
    /\ written
    /\ \E i \in DOMAIN PrevRecs : \E k \in DOMAIN jobs :
           PrevRecs[i].id = jobs[k].id /\ PrevRecs[i] # jobs[k]
    /\ \E i \in DOMAIN PrevRecs : \A k \in DOMAIN jobs : PrevRecs[i].id # jobs[k].id

\* C2: newRecords is the subsequence of the scraped records whose id is not an
\* id of the previous store, in the order of the scrape.
C2_NewRecords ==
    diffed =>
        /\ Len(newJobs) = NumNew
        /\ \A k \in NewIdx : newJobs[Rank(k)] = jobs[k]

C2_Witness ==
    /\ diffed
    /\ Len(newJobs) = 1
    /\ \E k \in DOMAIN jobs : \E i \in DOMAIN PrevRecs :
           jobs[k].id = PrevRecs[i].id /\ jobs[k] # PrevRecs[i]

\* C3: a run in which sends failed, and nothing but sends, still attempted every
\* per-record send once, in order, and the summary send, wrote the merged store,
\* sent no failure notification and ended with exit code 0.
C3_SendFailureSwallowed ==
    (pc = "exited" /\ SomeSendFailed /\ ~SaveFault) =>
        /\ Len(calls) = NumNew + 1
        /\ \A k \in NewIdx :
               calls[Rank(k)].type = "job" /\ calls[Rank(k)].job = <<jobs[k]>>
        /\ calls[NumNew + 1].type = "summary"
        /\ \A i \in DOMAIN calls : calls[i].type # "failure"
        /\ written
        /\ dataFile.kind = "array"
        /\ exitCode = 0
        /\ exitSite = "normal"

C3_Witness ==
    /\ pc = "exited"
    /\ Len(calls) >= 3
    /\ \A i \in DOMAIN calls : calls[i].status = "failed"
    /\ written
    /\ exitCode = 0

\* C4: once navigation has thrown, the run makes no per-record or summary call,
\* never reads or writes the store, and ends non-zero with exactly one failure
\* notification attempted, delivered or not.
C4_NavigationFailure ==
    ("nav" \in faults) =>
        /\ \A i \in DOMAIN calls : calls[i].type = "failure"
        /\ Len(calls) <= 1
        /\ ~fileRead
        /\ ~writeStarted
        /\ ~written
        /\ dataFile = fileAtStart
        /\ pc = "exited" => (Len(calls) = 1 /\ exitCode # 0)

C4_Witness ==
    /\ pc = "exited"
    /\ "nav" \in faults
    /\ Len(calls) = 1
    /\ calls[1].status = "failed"
    /\ fileAtStart.kind = "array"
    /\ fileAtStart.recs # <<>>

\* C5: no run that launched the browser ends without having closed it.
C5_BrowserClosed ==
    (pc = "exited" /\ browser # "none") => browser = "closed"

\* C6: a run that starts from a missing file, or from one holding anything
\* that is no usable sequence of records, and meets no other failure treats the
\* previous store as empty: every scraped record is new, the store written
\* holds the scraped records, no failure notification is sent, exit code 0.
C6_UnusableStoreIsEmpty ==
    (/\ pc = "exited"
     /\ ~CredsAbsent
     /\ faults = {}
     /\ fileAtStart.kind \in {"missing", "garbage", "nonarray"}) =>
        /\ newJobs = jobs
        /\ written
        /\ dataFile.kind = "array"
        /\ {dataFile.recs[i] : i \in DOMAIN dataFile.recs}
               \subseteq {jobs[k] : k \in DOMAIN jobs}
        /\ {dataFile.recs[i].id : i \in DOMAIN dataFile.recs}
               = {jobs[k].id : k \in DOMAIN jobs}
        /\ \A i \in DOMAIN calls : calls[i].type # "failure"
        /\ exitCode = 0

\* C7 as stated: with a credential absent the run ends at once with an exit
\* code distinct from that of a run failing later, no browser, no call and an
\* untouched store.
C7_DistinctExitCode ==
    (CredsAbsent /\ pc = "exited") =>
        /\ exitCode # 0
        /\ exitCode # FailExitCode
        /\ browser = "none"
        /\ calls = <<>>
        /\ ~fileRead
        /\ dataFile = fileAtStart

\* C7 amended: with a credential absent the first step of the run ends the
\* process with the non-zero exit code 1, which is also the code of a run
\* failing later; no browser is launched, no call is made, the store is untouched.
C7_ConfigExit ==
    (CredsAbsent /\ pc # "start") =>
        /\ pc = "exited"
        /\ exitSite = "config"
        /\ exitCode = ConfigExitCode
        /\ exitCode # 0
        /\ exitCode = FailExitCode
        /\ browser = "none"
        /\ calls = <<>>
        /\ ~fileRead
        /\ ~writeStarted
        /\ dataFile = fileAtStart

C7_Witness ==
    /\ pc = "exited"
    /\ exitSite = "config"
    /\ telegramBotToken
    /\ ~telegramChatId
    /\ fileAtStart.kind = "array"

\* The calls made so far are the per-record calls of the new records, in the
\* order of the scrape, one at a time, then at most one call that is no
\* per-record call.
CallsInOrder ==
    /\ \A i \in DOMAIN calls : calls[i].status = "pending" => i = Len(calls)
    /\ Len(calls) <= NumNew + 1
    /\ \A k \in NewIdx :
           Rank(k) <= Len(calls) =>
               calls[Rank(k)].type = "job" /\ calls[Rank(k)].job = <<jobs[k]>>
    /\ \A i \in DOMAIN calls : i > NumNew => calls[i].type # "job"

\* C8 as stated: every run that completed extraction and diff made one call
\* per new record, in order, then exactly one run-summary call.
C8_CallsThenSummary ==
    (pc = "exited" /\ diffed) =>
        /\ CallsInOrder
        /\ Len(calls) = NumNew + 1
        /\ calls[NumNew + 1].type = "summary"

\* C8 amended: after the diff the calls are one per new record, in order and
\* one at a time; a run that also wrote the store ends with exactly one
\* run-summary call after them, a run whose store write failed ends with
\* exactly one failure notification after them and no summary.
C8_CallsThenSummaryIfSaved ==
    diffed =>
        /\ CallsInOrder
        /\ pc = "exited" =>
               /\ Len(calls) = NumNew + 1
               /\ calls[NumNew + 1].type = IF written THEN "summary" ELSE "failure"
               /\ written <=> ~SaveFault

C8_Witness ==
    /\ pc = "exited"
    /\ written
    /\ Len(newJobs) = 2
    /\ Len(calls) = 3
    /\ calls[3].type = "summary"

\* C9 as stated: a run that ends normally wrote the store after the summary
\* send, and made no call after the store write had started.
C9_SaveAfterAllSends ==
    (pc = "exited" /\ exitSite = "normal") =>
        /\ written
        /\ Len(calls) = callsAtWrite
        /\ \E i \in 1..callsAtWrite : calls[i].type = "summary"

\* C9 amended: the store write starts only after every per-record send has
\* been attempted and has settled, whatever its outcome, and no per-record
\* send follows; the run-summary send is made only after the store is written.
C9_SaveAfterRecordSends ==
    /\ writeStarted =>
           /\ callsAtWrite = NumNew
           /\ \A i \in 1..callsAtWrite :
                  calls[i].type = "job" /\ calls[i].status # "pending"
           /\ \A i \in DOMAIN calls : i > callsAtWrite => calls[i].type # "job"
    /\ \A i \in DOMAIN calls :
           calls[i].type = "summary" => (written /\ i = callsAtWrite + 1)
    /\ (pc = "exited" /\ diffed /\ ~SaveFault) => written

C9_Witness ==
    /\ pc = "exited"
    /\ written
    /\ callsAtWrite = 2
    /\ calls[1].status = "failed"
    /\ calls[2].status = "sent"
    /\ calls[3].type = "summary"

\* C10: no id is the subject of a per-record send in a run after one in which
\* it already was.
C10_NotifiedOnce ==
    \A i \in DOMAIN calls :
        calls[i].type = "job" => calls[i].job[1].id \notin notifiedEarlier

====
